---------------------------- MODULE Spec2Model ----------------------------
(***************************************************************************)
(* Cart-abandonment dashboard: the metrics aggregation of src/app.py       *)
(* (Flask, class DashboardData and its routes) and src/streamlit_app.py    *)
(* (the script, and its functions calculate_summary_stats and the three    *)
(* breakdown views).                                                       *)
(*                                                                         *)
(* Spec is the two programs as they run: the Flask routes, and the         *)
(* Streamlit script, whose module body raises before main() is reached.    *)
(* SpecFunctions adds the functions of streamlit_app.py applied to the     *)
(* table its loader returns, as a caller of those functions would.         *)
(*                                                                         *)
(* Numbers.  A pandas float cell or result is either NaN or a float64.     *)
(* The cells of the model's tables are integers, so every float the code   *)
(* computes is an integer or one division of two integers; it is kept as   *)
(* the reduced fraction <<n, d>> (d > 0) of that division, and round works *)
(* on the float64 the fraction stands for.  NaN is <<>>.  Python ints      *)
(* (len(df), int(...)) are TLA+ integers.  The carts of the model are      *)
(* multiples of 10, for which the float64 product lost_revenue * 0.10 is   *)
(* the float64 of lost_revenue / 10.                                       *)
(*                                                                         *)
(* Objects.  A DataFrame is a mutable object; the model keeps a heap from  *)
(* references to tables so that df.copy() (a new object) and an alias (the *)
(* same object) differ.                                                    *)
(***************************************************************************)
EXTENDS Integers, Sequences, FiniteSets, TLC

VARIABLES reports,         \* the reports directory, as the loaders found it
          analysis_data,   \* DashboardData.analysis_data (Flask process)
          df,              \* the df handed to the functions of streamlit_app.py
          ret,             \* what the last call returned to its caller
          response         \* what the last Flask route sent to the client

vars == <<reports, analysis_data, df, ret, response>>

-----------------------------------------------------------------------------
(* Bounds and program constants *)

MaxRows == 2               \* rows of an enumerated small table

MinCategoryOrders == 50    \* category_stats['total_orders'] >= 50
MinStateOrders == 100      \* state_stats['total_orders'] >= 100
TopN == 10                 \* .head(10)
ChartTopN == 8             \* list(categories.keys())[:8]
NameLimit == 20            \* name[:20] + '...' if len(name) > 20
RoundDecimals == 3         \* .round(3)

-----------------------------------------------------------------------------
(* Floats: NaN or a reduced fraction *)

NaN == <<>>

isna(x) == x = NaN

Abs(n) == IF n < 0 THEN -n ELSE n

RECURSIVE GCD(_, _)
GCD(a, b) == IF b = 0 THEN a ELSE GCD(b, a % b)

Frac(n, d) ==
  LET g == GCD(Abs(n), d) IN <<n \div g, d \div g>>

F(n) == <<n, 1>>

FAdd(a, b) == Frac(a[1] * b[2] + b[1] * a[2], a[2] * b[2])

FMul(a, b) == Frac(a[1] * b[1], a[2] * b[2])

\* a / n for an integer n > 0
FDivInt(a, n) == Frac(a[1], a[2] * n)

\* Python int(x) of a non-negative float: truncation
IntCast(a) == a[1] \div a[2]

FGreater(a, b) == a[1] * b[2] > b[1] * a[2]

RECURSIVE Pow10(_)
Pow10(k) == IF k = 0 THEN 1 ELSE 10 * Pow10(k - 1)

RECURSIVE Pow2(_)
Pow2(k) == IF k = 0 THEN 1 ELSE 2 * Pow2(k - 1)

\* the e >= from with d * 2^(e+1) > n, for n >= d * 2^from
RECURSIVE Log2Up(_, _, _)
Log2Up(n, d, from) ==
  IF d * Pow2(from + 1) <= n THEN Log2Up(n, d, from + 1) ELSE from

\* the j >= from with n * 2^j >= d, for n * 2^(from-1) < d
RECURSIVE Log2Down(_, _, _)
Log2Down(n, d, from) ==
  IF n * Pow2(from) < d THEN Log2Down(n, d, from + 1) ELSE from

\* the binary exponent of the float n/d (n, d > 0): floor(log2(n/d))
Exponent(n, d) == IF n >= d THEN Log2Up(n, d, 0) ELSE -Log2Down(n, d, 1)

\* (r * 2^k) mod d
RECURSIVE MulPow2Mod(_, _, _)
MulPow2Mod(r, k, d) == IF k = 0 THEN r ELSE MulPow2Mod((2 * r) % d, k - 1, d)

\* float64(n/d) - n/d in units of 2^(Exponent(n, d) - 52) / d: the division
\* n/d is rounded to 53 significant bits, half to even
DivisionError(n, d) ==
  LET bits == 52 - Exponent(n, d)
      prev == MulPow2Mod(n % d, bits - 1, d)
      rem == (2 * prev) % d
      odd == 2 * prev >= d          \* the last kept bit of the quotient
  IN IF 2 * rem < d THEN -rem
     ELSE IF 2 * rem > d THEN d - rem
     ELSE IF odd THEN d - rem ELSE -rem

\* np.rint(float64(n/d) * scale) when n * scale / d is exactly k + 1/2: the
\* product is rounded to 53 bits before rint sees it.  It is the tie k + 1/2
\* again (rint then goes to the even neighbour) when the error carried from
\* the division is at most half the spacing of floats at k + 1/2; otherwise it
\* lies on the side of the error.
TieRoundsUp(n, d, k, scale) ==
  LET eps == DivisionError(n, d)
      half == d * Pow2(Exponent(2 * k + 1, 2) - Exponent(n, d))
      tie == IF eps < 0 /\ k = 0
             THEN 4 * scale * Abs(eps) <= half   \* below 1/2 floats are denser
             ELSE 2 * scale * Abs(eps) <= half
  IN IF tie THEN k % 2 = 1 ELSE eps > 0

\* numpy/pandas round(decimals) of a non-negative float64 that is an integer
\* or the quotient of two integers: np.rint(x * 10**decimals) / 10**decimals,
\* each step in float64; NaN stays NaN
round(x, decimals) ==
  IF isna(x) THEN NaN
  ELSE IF x[1] = 0 THEN x
  ELSE LET s == Pow10(decimals)
           num == x[1] * s
           q == num \div x[2]
           r == num % x[2]
           up == IF 2 * r = x[2] THEN TieRoundsUp(x[1], x[2], q, s)
                 ELSE 2 * r > x[2]
       IN Frac(IF up THEN q + 1 ELSE q, s)

-----------------------------------------------------------------------------
(* Series reductions (pandas skips NaN: skipna=True) *)

\* the sum of the non-NaN cells s[lo..hi], by halves
RECURSIVE SumRange(_, _, _)
SumRange(s, lo, hi) ==
  IF lo > hi THEN F(0)
  ELSE IF lo = hi THEN (IF isna(s[lo]) THEN F(0) ELSE s[lo])
  ELSE LET mid == (lo + hi) \div 2
       IN FAdd(SumRange(s, lo, mid), SumRange(s, mid + 1, hi))

\* Series.sum(): NaN cells skipped, the empty sum is 0
sum(s) == SumRange(s, 1, Len(s))

\* Series.count(): the non-NaN cells
count(s) == Cardinality({i \in 1..Len(s) : ~isna(s[i])})

\* Series.mean(): NaN cells skipped; NaN when nothing is left
mean(s) == IF count(s) = 0 THEN NaN ELSE FDivInt(sum(s), count(s))

\* faulty variant of fillna: the fill forgotten, the series as it was
fillna_forgotten(s, v) == s

\* Series.fillna(v)
fillna(s, v) == [i \in 1..Len(s) |-> IF isna(s[i]) THEN v ELSE s[i]]

-----------------------------------------------------------------------------
(* DataFrames *)

None == [isNone |-> TRUE, columns |-> {}, rows |-> <<>>]

DataFrame(cols, rows) == [isNone |-> FALSE, columns |-> cols, rows |-> rows]

\* df[c] for a column that exists
col(t, c) == [i \in 1..Len(t.rows) |-> t.rows[i][c]]

\* df[c] = s  (column assignment, in place on the object)
setcol(t, c, s) ==
  [t EXCEPT !.rows = [i \in 1..Len(t.rows) |-> [t.rows[i] EXCEPT ![c] = s[i]]]]

\* df[mask] for mask = (df[c] == 1)
SelectEq1(t, c) == [t EXCEPT !.rows = SelectSeq(t.rows, LAMBDA r : r[c] = F(1))]

-----------------------------------------------------------------------------
(* Return values *)

Returned(v) == [raised |-> FALSE, exc |-> "none", value |-> v]
Raised(e) == [raised |-> TRUE, exc |-> e, value |-> <<>>]

EmptyDict == <<>>
EmptyList == <<>>

-----------------------------------------------------------------------------
(* The heap: the object self.analysis_data (or the caller's df) refers to,  *)
(* and the object a call's local name df refers to.                         *)

Refs == {"caller", "local"}

NewHeap(data) == [r \in Refs |-> IF r = "caller" THEN data ELSE None]

\* faulty variant of copy: df = <src>, the local name aliases the caller's object
copy_alias(heap, src) == [ref |-> src, heap |-> heap]

\* df = <src>.copy(): a new object with the same content
copy(heap, src) ==
  [ref |-> "local", heap |-> [heap EXCEPT !["local"] = heap[src]]]

\* df[c] = df[c].fillna(0); reading a column the frame lacks raises KeyError
FillColumn(heap, ref, c) ==
  IF c \notin heap[ref].columns
  THEN [raised |-> TRUE, heap |-> heap]
  ELSE [raised |-> FALSE,
        heap |-> [heap EXCEPT ![ref] = setcol(@, c, fillna(col(@, c), F(0)))]]

\* the three fillna assignments, in the order of the source
CleanData(heap, ref) ==
  LET s1 == FillColumn(heap, ref, "is_abandoned")
      s2 == IF s1.raised THEN s1 ELSE FillColumn(s1.heap, ref, "is_completed")
  IN IF s2.raised THEN s2 ELSE FillColumn(s2.heap, ref, "cart_value")

-----------------------------------------------------------------------------
(* Flask: DashboardData *)

\* the body of the try block, on the cleaned frame t
SummaryOf(t) ==
  LET total_orders == Len(t.rows)
      abandoned_orders == IntCast(sum(col(t, "is_abandoned")))
      completed_orders == IntCast(sum(col(t, "is_completed")))
      abandonment_rate == IF total_orders > 0
                          THEN Frac(abandoned_orders, total_orders)
                          ELSE F(0)
      completed_df == SelectEq1(t, "is_completed")
      abandoned_df == SelectEq1(t, "is_abandoned")
      total_revenue == sum(col(completed_df, "cart_value"))
      lost_revenue == sum(col(abandoned_df, "cart_value"))
      avg_cart_value == mean(col(t, "cart_value"))
  IN [total_orders |-> total_orders,
      abandoned_orders |-> abandoned_orders,
      completed_orders |-> completed_orders,
      abandonment_rate |-> abandonment_rate,
      total_revenue |-> total_revenue,
      lost_revenue |-> lost_revenue,
      avg_cart_value |-> avg_cart_value,
      potential_recovery_10pct |-> FMul(lost_revenue, Frac(10, 100))]

\* DashboardData.get_summary_stats: the value returned and the object
\* self.analysis_data refers to after the call
get_summary_stats(data) ==
  IF data.isNone
  THEN [ret |-> Returned(EmptyDict), data |-> data]
  ELSE LET c == copy(NewHeap(data), "caller")
           s == CleanData(c.heap, c.ref)
       IN [ret |-> IF s.raised
                   THEN Returned(EmptyDict)        \* except Exception: return {}
                   ELSE Returned(SummaryOf(s.heap[c.ref])),
           data |-> s.heap["caller"]]

-----------------------------------------------------------------------------
(* Streamlit: calculate_summary_stats *)

StSummaryOf(t) ==
  LET total_orders == Len(t.rows)
      abandoned_orders == IntCast(sum(col(t, "is_abandoned")))
      completed_orders == IntCast(sum(col(t, "is_completed")))
      abandonment_rate == IF total_orders > 0
                          THEN Frac(abandoned_orders, total_orders)
                          ELSE F(0)
      completed_df == SelectEq1(t, "is_completed")
      abandoned_df == SelectEq1(t, "is_abandoned")
      total_revenue == sum(col(completed_df, "cart_value"))
      lost_revenue == sum(col(abandoned_df, "cart_value"))
      avg_cart_value == mean(col(t, "cart_value"))
  IN [total_orders |-> total_orders,
      abandoned_orders |-> abandoned_orders,
      completed_orders |-> completed_orders,
      abandonment_rate |-> abandonment_rate,
      total_revenue |-> total_revenue,
      lost_revenue |-> lost_revenue,
      avg_cart_value |-> avg_cart_value,
      potential_recovery_10pct |-> FMul(lost_revenue, Frac(10, 100))]

\* calculate_summary_stats(df): no try/except, a KeyError reaches the caller
calculate_summary_stats(data) ==
  IF data.isNone
  THEN [ret |-> Returned(EmptyDict), data |-> data]
  ELSE LET c == copy(NewHeap(data), "caller")
           s == CleanData(c.heap, c.ref)
       IN [ret |-> IF s.raised
                   THEN Raised("KeyError")
                   ELSE Returned(StSummaryOf(s.heap[c.ref])),
           data |-> s.heap["caller"]]

-----------------------------------------------------------------------------
(* Breakdowns: groupby(key).agg({...}).round(3), filter, sort, head *)

\* The group labels of the model in Python's string order (groupby sorts its
\* keys: sort=True)
Labels == <<"RJ", "SP", "boleto", "credit_card", "exactly_twenty_chars",
            "fashion_underwear_beach">>

Rank(k) == CHOOSE i \in 1..Len(Labels) : Labels[i] = k

RECURSIVE SortedKeys(_)
SortedKeys(S) ==
  IF S = {} THEN <<>>
  ELSE LET k == CHOOSE x \in S : \A y \in S : Rank(x) <= Rank(y)
       IN <<k>> \o SortedKeys(S \ {k})

\* one row of the aggregated frame, after .round(3) and the renaming of the
\* columns: 'count', 'sum', 'mean' of is_abandoned and 'sum', 'mean' of cart_value
GroupRecord(t, key, k) ==
  LET g == [t EXCEPT !.rows = SelectSeq(t.rows, LAMBDA r : r[key] = k)]
  IN [key |-> k,
      total_orders |-> count(col(g, "is_abandoned")),
      abandoned_orders |-> round(sum(col(g, "is_abandoned")), RoundDecimals),
      abandonment_rate |-> round(mean(col(g, "is_abandoned")), RoundDecimals),
      total_revenue |-> round(sum(col(g, "cart_value")), RoundDecimals),
      avg_cart_value |-> round(mean(col(g, "cart_value")), RoundDecimals)]

\* df.groupby(key).agg(...).round(3) with the five column names: the groups in
\* key order; a missing key or aggregated column raises KeyError
GroupStats(t, key) ==
  IF {key, "is_abandoned", "cart_value"} \subseteq t.columns
  THEN LET keys == SortedKeys({t.rows[i][key] : i \in 1..Len(t.rows)})
       IN Returned([j \in 1..Len(keys) |-> GroupRecord(t, key, keys[j])])
  ELSE Raised("KeyError")

\* stats[stats['total_orders'] >= n]
FilterMinOrders(stats, n) == SelectSeq(stats, LAMBDA g : g.total_orders >= n)

Perms(n) == {p \in [1..n -> 1..n] : \A i, j \in 1..n : i # j => p[i] # p[j]}

\* a before b is a possible outcome of sort_values(ascending=False):
\* NaN last (na_position='last'); the default kind='quicksort' is not a stable
\* sort, so rows with equal values may come out in either order
MayPrecede(a, b, i, j) ==
  IF isna(a) /\ isna(b) THEN i < j
  ELSE IF isna(a) THEN FALSE
  ELSE IF isna(b) THEN TRUE
  ELSE ~FGreater(b, a)

\* stats.sort_values('abandonment_rate', ascending=False): the outcomes a build
\* of numpy's quicksort can produce
sort_values(stats) ==
  LET n == Len(stats)
      ok(p) == \A i, j \in 1..n : i < j =>
                 MayPrecede(stats[p[i]].abandonment_rate,
                            stats[p[j]].abandonment_rate, p[i], p[j])
  IN {[i \in 1..n |-> stats[p[i]]] : p \in {q \in Perms(n) : ok(q)}}

Min(a, b) == IF a < b THEN a ELSE b

\* stats.head(n)
head(stats, n) == SubSeq(stats, 1, Min(n, Len(stats)))

\* DashboardData.get_category_analysis: the values the call may return
\* (to_dict('index') keeps the rows' order as the dict's insertion order)
get_category_analysis(data) ==
  IF data.isNone THEN {Returned(EmptyList)}
  ELSE LET category_stats == GroupStats(data, "product_category_name_english")
       IN IF category_stats.raised THEN {category_stats}
          ELSE {Returned(head(s, TopN)) :
                  s \in sort_values(FilterMinOrders(category_stats.value,
                                                    MinCategoryOrders))}

\* DashboardData.get_payment_analysis: no filter, no sort, no head
get_payment_analysis(data) ==
  IF data.isNone THEN {Returned(EmptyList)}
  ELSE {GroupStats(data, "payment_type")}

\* DashboardData.get_state_analysis
get_state_analysis(data) ==
  IF data.isNone THEN {Returned(EmptyList)}
  ELSE LET state_stats == GroupStats(data, "customer_state")
       IN IF state_stats.raised THEN {state_stats}
          ELSE {Returned(head(s, TopN)) :
                  s \in sort_values(FilterMinOrders(state_stats.value,
                                                    MinStateOrders))}

-----------------------------------------------------------------------------
(* Chart endpoints *)

\* abandonment_pie_chart: {} when the summary is empty, else the pie's values
abandonment_pie_chart(data) ==
  LET r == get_summary_stats(data)
      summary == r.ret.value
  IN [ret |-> IF DOMAIN summary = {}
              THEN Returned(EmptyDict)
              ELSE Returned([labels |-> <<"Completed Orders", "Abandoned Orders">>,
                             values |-> <<summary.completed_orders,
                                          summary.abandoned_orders>>]),
      data |-> r.data]

\* the bar figure of a breakdown limited to its first n groups, each bar
\* under its full key
BarFigure(groups, n) ==
  LET g == head(groups, n)
  IN [x |-> [i \in 1..Len(g) |-> g[i].key],
      y |-> [i \in 1..Len(g) |-> g[i].abandonment_rate]]

\* name[:20] + '...' if len(name) > 20 else name
ShortName(name) ==
  IF Len(name) > NameLimit THEN SubSeq(name, 1, NameLimit) \o "..." ELSE name

\* the figure of category_bar_chart: the first 8 categories, long names cut
CategoryBarFigure(categories) ==
  LET g == head(categories, ChartTopN)
  IN [x |-> [i \in 1..Len(g) |-> ShortName(g[i].key)],
      y |-> [i \in 1..Len(g) |-> g[i].abandonment_rate]]

\* category_bar_chart: an exception of get_category_analysis propagates
category_bar_chart(data) ==
  {IF c.raised THEN c
   ELSE IF Len(c.value) = 0 THEN Returned(EmptyDict)
   ELSE Returned(CategoryBarFigure(c.value)) : c \in get_category_analysis(data)}

\* flask.jsonify of a dict keyed by group: json.dumps(sort_keys=True), the
\* groups in key order whatever order the dict had
jsonify(groups) ==
  LET keys == SortedKeys({groups[i].key : i \in 1..Len(groups)})
  IN [j \in 1..Len(keys) |->
        groups[CHOOSE i \in 1..Len(groups) : groups[i].key = keys[j]]]

\* payment_bar_chart: every payment type, in the breakdown's order
payment_bar_chart(data) ==
  {IF c.raised THEN c
   ELSE IF Len(c.value) = 0 THEN Returned(EmptyDict)
   ELSE Returned(BarFigure(c.value, Len(c.value))) : c \in get_payment_analysis(data)}

-----------------------------------------------------------------------------
(* streamlit_app.py: the show_* breakdowns (the same pipelines on the        *)
(* caller's df; the chart takes head(n) under the full names, the table      *)
(* shows every kept group)                                                   *)

ChartHead == 10            \* category_stats.head(10)
StateChartHead == 15       \* state_stats.head(15)

Shown(stats, n) == [chart |-> BarFigure(stats, n), table |-> stats]

show_category_analysis(data) ==
  LET category_stats == GroupStats(data, "product_category_name_english")
  IN IF data.isNone THEN {Raised("AttributeError")}   \* None.groupby
     ELSE IF category_stats.raised THEN {category_stats}
     ELSE {Returned(Shown(s, ChartHead)) :
             s \in sort_values(FilterMinOrders(category_stats.value,
                                               MinCategoryOrders))}

show_payment_analysis(data) ==
  LET payment_stats == GroupStats(data, "payment_type")
  IN IF data.isNone THEN {Raised("AttributeError")}   \* None.groupby
     ELSE IF payment_stats.raised THEN {payment_stats}
     ELSE {Returned(Shown(payment_stats.value, Len(payment_stats.value)))}

show_geographic_analysis(data) ==
  LET state_stats == GroupStats(data, "customer_state")
  IN IF data.isNone THEN {Raised("AttributeError")}   \* None.groupby
     ELSE IF state_stats.raised THEN {state_stats}
     ELSE {Returned(Shown(s, StateChartHead)) :
             s \in sort_values(FilterMinOrders(state_stats.value,
                                               MinStateOrders))}

-----------------------------------------------------------------------------
(* Loading.  The reports directory is the environment: whether a file       *)
(* matches analysis_dataset_*.csv, whether reading it raises, and the table *)
(* pd.read_csv parses from it.                                              *)

\* faulty variant of load_analysis_data: a failed read leaves an empty
\* DataFrame instead of None
load_analysis_data_fallback(env) ==
  IF ~env.csv_files THEN None
  ELSE IF env.read_raises THEN DataFrame({}, <<>>)
  ELSE env.table

\* DashboardData.load_analysis_data, from analysis_data = None
load_analysis_data(env) ==
  IF ~env.csv_files THEN None          \* "No analysis dataset found"
  ELSE IF env.read_raises THEN None    \* except Exception: print
  ELSE env.table

\* streamlit_app.load_analysis_data: the df of (df, path)
st_load_analysis_data(env) ==
  IF ~env.csv_files THEN None
  ELSE IF env.read_raises THEN None
  ELSE env.table

-----------------------------------------------------------------------------
(* The tables the model loads *)

Columns == {"is_abandoned", "is_completed", "cart_value",
            "product_category_name_english", "payment_type", "customer_state"}

Categories == <<"exactly_twenty_chars", "fashion_underwear_beach">>
Payments == <<"boleto", "credit_card">>
States == <<"RJ", "SP">>

GroupIx == 1..Len(Categories)

\* (is_abandoned, is_completed) of an order: abandoned, completed, and the
\* same with one or both flags missing
FlagPairs == {<<F(1), F(0)>>, <<F(0), F(1)>>, <<F(1), NaN>>, <<NaN, F(1)>>,
              <<NaN, NaN>>}
CartValues == {NaN, F(10), F(20)}

Row(g, a, c, v) ==
  [is_abandoned |-> a, is_completed |-> c, cart_value |-> v,
   product_category_name_english |-> Categories[g],
   payment_type |-> Payments[g],
   customer_state |-> States[g]]

SmallRows == {Row(g, f[1], f[2], v) : g \in GroupIx, f \in FlagPairs,
                                      v \in CartValues}

\* every table of at most MaxRows rows
SmallTables ==
  {DataFrame(Columns, rows) : rows \in UNION {[1..n -> SmallRows] : n \in 0..MaxRows}}

\* a table that lacks one column
DropColumn(t, c) ==
  DataFrame(t.columns \ {c},
            [i \in 1..Len(t.rows) |-> [k \in t.columns \ {c} |-> t.rows[i][k]]])

MissingColumnTables ==
  {DropColumn(DataFrame(Columns, rows), c) :
     rows \in {<<>>} \cup {<<Row(g, F(1), F(0), v)>> : g \in GroupIx,
                                                     v \in CartValues},
     c \in Columns}

\* n copies of a row
Repeat(r, n) == [i \in 1..n |-> r]

\* the sizes around the two thresholds
GroupSizes == {MinCategoryOrders - 1, MinCategoryOrders,
               MinStateOrders - 1, MinStateOrders}

\* the rows of one large group: n orders with the same flag, then possibly
\* one more order whose flag is missing or different
GroupRows(g, n, a, extra) ==
  Repeat(Row(g, a, F(1), F(10)), n)
    \o (IF extra = "none" THEN <<>>
        ELSE IF extra = "null" THEN <<Row(g, NaN, NaN, F(20))>>
        ELSE <<Row(g, F(1), F(0), F(20))>>)

Extras == {"none", "null", "abandoned"}

\* two large groups; the first may carry the one more order
LargeTables ==
  {DataFrame(Columns, GroupRows(1, n1, a1, e1) \o GroupRows(2, n2, a2, "none")) :
     n1 \in GroupSizes, n2 \in GroupSizes,
     a1 \in {F(0), F(1)}, a2 \in {F(0), F(1)},
     e1 \in Extras}

Envs ==
  {[csv_files |-> FALSE, read_raises |-> FALSE, table |-> None],
   [csv_files |-> TRUE, read_raises |-> TRUE, table |-> None]}
  \cup {[csv_files |-> TRUE, read_raises |-> FALSE, table |-> t] :
          t \in SmallTables \cup MissingColumnTables \cup LargeTables}

-----------------------------------------------------------------------------
(* The state machine *)

Idle == [op |-> "none", raised |-> FALSE, exc |-> "none", value |-> <<>>]

Called(op, r) ==
  [op |-> op, raised |-> r.raised, exc |-> r.exc, value |-> r.value]

NoResponse == [status |-> 0, body |-> <<>>]

\* what Flask sends for a view function: its return value, or a 500 page when
\* the view raised
HttpResponse(r, body) ==
  IF r.raised THEN [status |-> 500, body |-> <<>>]
  ELSE [status |-> 200, body |-> body]

\* the module body of streamlit_app.py: st.set_page_config(...) returns None
\* and the text goes on with "@st.cache_data", so the statement is the matrix
\* product of None and a function; the def lines and main() are never reached
streamlit_app == Raised("TypeError")

\* DashboardData.__init__ on the reports directory
LoadDashboard(env) ==
  /\ reports = [csv_files |-> env.csv_files, read_raises |-> env.read_raises]
  /\ analysis_data = load_analysis_data(env)
  /\ ret = Idle
  /\ response = NoResponse

\* the Flask process started; the Streamlit script has bound no df
Init ==
  \E env \in Envs :
    /\ LoadDashboard(env)
    /\ df = None

\* /api/summary: the record's fields have no order in the model, so the body
\* jsonify makes of it is the record
GetSummaryStats ==
  /\ ret.op = "none"
  /\ LET r == get_summary_stats(analysis_data)
     IN /\ analysis_data' = r.data
        /\ ret' = Called("get_summary_stats", r.ret)
        /\ response' = HttpResponse(r.ret, r.ret.value)
  /\ UNCHANGED <<reports, df>>

\* /api/categories
GetCategoryAnalysis ==
  /\ ret.op = "none"
  /\ \E r \in get_category_analysis(analysis_data) :
       /\ ret' = Called("get_category_analysis", r)
       /\ response' = HttpResponse(r, jsonify(r.value))
  /\ UNCHANGED <<reports, analysis_data, df>>

\* /api/payments
GetPaymentAnalysis ==
  /\ ret.op = "none"
  /\ \E r \in get_payment_analysis(analysis_data) :
       /\ ret' = Called("get_payment_analysis", r)
       /\ response' = HttpResponse(r, jsonify(r.value))
  /\ UNCHANGED <<reports, analysis_data, df>>

\* /api/states
GetStateAnalysis ==
  /\ ret.op = "none"
  /\ \E r \in get_state_analysis(analysis_data) :
       /\ ret' = Called("get_state_analysis", r)
       /\ response' = HttpResponse(r, jsonify(r.value))
  /\ UNCHANGED <<reports, analysis_data, df>>

\* /api/charts/abandonment_pie
AbandonmentPieChart ==
  /\ ret.op = "none"
  /\ LET r == abandonment_pie_chart(analysis_data)
     IN /\ analysis_data' = r.data
        /\ ret' = Called("abandonment_pie_chart", r.ret)
        /\ response' = HttpResponse(r.ret, r.ret.value)
  /\ UNCHANGED <<reports, df>>

\* /api/charts/category_bar
CategoryBarChart ==
  /\ ret.op = "none"
  /\ \E r \in category_bar_chart(analysis_data) :
       /\ ret' = Called("category_bar_chart", r)
       /\ response' = HttpResponse(r, r.value)
  /\ UNCHANGED <<reports, analysis_data, df>>

\* /api/charts/payment_bar
PaymentBarChart ==
  /\ ret.op = "none"
  /\ \E r \in payment_bar_chart(analysis_data) :
       /\ ret' = Called("payment_bar_chart", r)
       /\ response' = HttpResponse(r, r.value)
  /\ UNCHANGED <<reports, analysis_data, df>>

\* streamlit run streamlit_app.py
RunStreamlitScript ==
  /\ ret.op = "none"
  /\ ret' = Called("streamlit_app", streamlit_app)
  /\ UNCHANGED <<reports, analysis_data, df, response>>

\* the caller takes the returned value; the next call may start
Respond ==
  /\ ret.op # "none"
  /\ ret' = Idle
  /\ response' = NoResponse
  /\ UNCHANGED <<reports, analysis_data, df>>

Next ==
  \/ GetSummaryStats
  \/ GetCategoryAnalysis
  \/ GetPaymentAnalysis
  \/ GetStateAnalysis
  \/ AbandonmentPieChart
  \/ CategoryBarChart
  \/ PaymentBarChart
  \/ RunStreamlitScript
  \/ Respond

Spec == Init /\ [][Next]_vars

-----------------------------------------------------------------------------
(* The functions of streamlit_app.py, applied by a caller.  The script never *)
(* calls them (its module body raises first), so they are taken as functions *)
(* of their argument: the df load_analysis_data returns for the same reports *)
(* directory, None included.                                                 *)

InitFunctions ==
  \E env \in Envs :
    /\ LoadDashboard(env)
    /\ df = st_load_analysis_data(env)

\* calculate_summary_stats(df)
CalculateSummaryStats ==
  /\ ret.op = "none"
  /\ LET r == calculate_summary_stats(df)
     IN /\ df' = r.data
        /\ ret' = Called("calculate_summary_stats", r.ret)
  /\ UNCHANGED <<reports, analysis_data, response>>

\* show_category_analysis(df)
ShowCategoryAnalysis ==
  /\ ret.op = "none"
  /\ \E r \in show_category_analysis(df) :
       ret' = Called("show_category_analysis", r)
  /\ UNCHANGED <<reports, analysis_data, df, response>>

\* show_payment_analysis(df)
ShowPaymentAnalysis ==
  /\ ret.op = "none"
  /\ \E r \in show_payment_analysis(df) :
       ret' = Called("show_payment_analysis", r)
  /\ UNCHANGED <<reports, analysis_data, df, response>>

\* show_geographic_analysis(df)
ShowGeographicAnalysis ==
  /\ ret.op = "none"
  /\ \E r \in show_geographic_analysis(df) :
       ret' = Called("show_geographic_analysis", r)
  /\ UNCHANGED <<reports, analysis_data, df, response>>

NextFunctions ==
  \/ Next
  \/ CalculateSummaryStats
  \/ ShowCategoryAnalysis
  \/ ShowPaymentAnalysis
  \/ ShowGeographicAnalysis

SpecFunctions == InitFunctions /\ [][NextFunctions]_vars

-----------------------------------------------------------------------------
(* Vocabulary of the properties *)

SummaryOps == {"get_summary_stats", "calculate_summary_stats"}
BreakdownOps == {"get_category_analysis", "get_payment_analysis",
                 "get_state_analysis"}
ChartOps == {"abandonment_pie_chart", "category_bar_chart", "payment_bar_chart"}
FlaskOps == {"get_summary_stats"} \cup BreakdownOps \cup ChartOps
StreamlitOps == {"calculate_summary_stats", "show_category_analysis",
                 "show_payment_analysis", "show_geographic_analysis"}

\* the table the last call worked on
CallTable == IF ret.op \in StreamlitOps THEN df ELSE analysis_data

\* the last call returned a non-empty value
ReturnedValue == ret.op # "none" /\ ~ret.raised /\ DOMAIN ret.value # {}

\* the column a breakdown groups by
KeyColumn(op) ==
  IF op = "get_category_analysis" THEN "product_category_name_english"
  ELSE IF op = "get_payment_analysis" THEN "payment_type"
  ELSE "customer_state"

\* a cell read with the null-as-zero rule (the cells of the model are integers)
Zeroed(x) == IF isna(x) THEN 0 ELSE x[1]

RECURSIVE WeightedSum(_, _, _, _)
WeightedSum(t, c, I, V) ==
  IF V = {} THEN 0
  ELSE LET v == CHOOSE x \in V : TRUE
       IN v * Cardinality({i \in I : Zeroed(t.rows[i][c]) = v})
            + WeightedSum(t, c, I, V \ {v})

\* the sum of column c over the rows I of t, nulls as 0
ZeroedSum(t, c, I) == WeightedSum(t, c, I, {Zeroed(t.rows[i][c]) : i \in I})

RowsWhere1(t, c) == {i \in 1..Len(t.rows) : t.rows[i][c] = F(1)}

RowsOfGroup(t, key, k) == {i \in 1..Len(t.rows) : t.rows[i][key] = k}

HasNull(t, c) == \E i \in 1..Len(t.rows) : isna(t.rows[i][c])

-----------------------------------------------------------------------------
(* C1.  For a zero-row table the summary returns a defined avg_cart_value   *)
(* (0 or a sentinel), never NaN.                                            *)
C1_ZeroRowAvgDefined ==
  (/\ ret.op \in SummaryOps
   /\ ReturnedValue
   /\ ~CallTable.isNone
   /\ Len(CallTable.rows) = 0)
  => ~isna(ret.value.avg_cart_value)

\* the columns an operation of DashboardData reads
RequiredColumns(op) ==
  IF op = "get_summary_stats"
  THEN {"is_abandoned", "is_completed", "cart_value"}
  ELSE {KeyColumn(op), "is_abandoned", "cart_value"}

(* C2.  When the loaded table lacks a column that a summary or breakdown   *)
(* operation requires, the call fails with an error raised to its caller;  *)
(* it does not return an empty or partial result.                          *)
C2_MissingColumnRaises ==
  (/\ ret.op \in {"get_summary_stats"} \cup BreakdownOps
   /\ ~analysis_data.isNone
   /\ ~(RequiredColumns(ret.op) \subseteq analysis_data.columns))
  => ret.raised

\* a breakdown record computed with every null of its group read as 0
GroupAsClaimed(t, key, g) ==
  LET I == RowsOfGroup(t, key, g.key)
      n == Cardinality(I)
  IN /\ g.total_orders = n
     /\ g.abandoned_orders = F(ZeroedSum(t, "is_abandoned", I))
     /\ g.total_revenue = round(F(ZeroedSum(t, "cart_value", I)), RoundDecimals)
     /\ n > 0 => g.avg_cart_value =
                   round(Frac(ZeroedSum(t, "cart_value", I), n), RoundDecimals)

(* C3.  In every breakdown, nulls are zeroed before grouping: a group's    *)
(* total_orders is its number of rows (rows with a null is_abandoned       *)
(* included), abandoned_orders the sum of is_abandoned, total_revenue the  *)
(* sum of cart_value over all its rows and avg_cart_value that sum divided *)
(* by the row count (each to 3 decimals, as the breakdown record is).      *)
C3_BreakdownNullsZeroed ==
  (ret.op \in BreakdownOps /\ ~ret.raised /\ ~analysis_data.isNone)
  => \A j \in 1..Len(ret.value) :
       GroupAsClaimed(analysis_data, KeyColumn(ret.op), ret.value[j])

(* C4.  The summary treats a null cart_value as 0 in every sum and mean    *)
(* and a null flag as 0: total_revenue is the sum of cart_value over       *)
(* exactly the rows with is_completed == 1, lost_revenue the sum over      *)
(* exactly the rows with is_abandoned == 1, and for a non-empty table      *)
(* avg_cart_value is the sum of cart_value over all rows divided by the    *)
(* row count.                                                              *)
C4_SummaryNullAsZero ==
  (ret.op \in SummaryOps /\ ReturnedValue)
  => LET t == CallTable
         n == Len(t.rows)
         avg == ret.value.avg_cart_value
     IN /\ ret.value.total_revenue
             = F(ZeroedSum(t, "cart_value", RowsWhere1(t, "is_completed")))
        /\ ret.value.lost_revenue
             = F(ZeroedSum(t, "cart_value", RowsWhere1(t, "is_abandoned")))
        /\ n > 0 => /\ ~isna(avg)
                    /\ avg[1] * n = ZeroedSum(t, "cart_value", 1..n) * avg[2]

\* a summary was returned for a table with a null cart_value, a null
\* is_completed and some completed revenue
C4_Witness ==
  /\ ret.op = "get_summary_stats"
  /\ ReturnedValue
  /\ HasNull(analysis_data, "cart_value")
  /\ HasNull(analysis_data, "is_completed")
  /\ ret.value.total_revenue # F(0)
  /\ ret.value.avg_cart_value = F(5)

(* C5.  Each of the three breakdowns (category, payment method, state)     *)
(* returns its groups by non-increasing abandonment_rate: no group comes   *)
(* before a group with a strictly higher abandonment_rate.                 *)
C5_BreakdownSortedByRate ==
  (ret.op \in BreakdownOps /\ ~ret.raised)
  => \A i, j \in 1..Len(ret.value) :
       (/\ i < j
        /\ ~isna(ret.value[i].abandonment_rate)
        /\ ~isna(ret.value[j].abandonment_rate))
       => ~FGreater(ret.value[j].abandonment_rate, ret.value[i].abandonment_rate)

(* C6.  In the category and state breakdowns, groups with equal            *)
(* abandonment_rate keep their group-iteration (key) order: the sort is    *)
(* stable.                                                                 *)
C6_TiesKeepGroupOrder ==
  (ret.op \in {"get_category_analysis", "get_state_analysis"} /\ ~ret.raised)
  => \A i, j \in 1..Len(ret.value) :
       (i < j /\ ret.value[i].abandonment_rate = ret.value[j].abandonment_rate)
       => Rank(ret.value[i].key) < Rank(ret.value[j].key)

\* the minimum group size of each breakdown
MinGroupSize(op) ==
  IF op = "get_category_analysis" THEN MinCategoryOrders
  ELSE IF op = "get_state_analysis" THEN MinStateOrders
  ELSE 0

(* C7.  The filter drops exactly the groups below the minimum group size:  *)
(* a category of 49 rows is excluded and one of 50 rows is included, a     *)
(* state of 99 rows is excluded and one of 100 rows is included, and the   *)
(* payment breakdown drops no group.                                       *)
C7_FilterByGroupRows ==
  (ret.op \in BreakdownOps /\ ~ret.raised /\ ~analysis_data.isNone)
  => LET t == analysis_data
         key == KeyColumn(ret.op)
         kept == {ret.value[j].key : j \in 1..Len(ret.value)}
     IN \A k \in {t.rows[i][key] : i \in 1..Len(t.rows)} :
          k \in kept <=> Cardinality(RowsOfGroup(t, key, k)) >= MinGroupSize(ret.op)

(* C8.  When no dataset could be loaded (no matching file, or the load     *)
(* raised), analysis_data stays absent and every later aggregation call    *)
(* (summary, the three breakdowns, the chart endpoints) returns an empty   *)
(* result and never raises.                                                *)
C8_AbsentDataDegrades ==
  (~reports.csv_files \/ reports.read_raises)
  => /\ analysis_data.isNone
     /\ ret.op \in FlaskOps => /\ ~ret.raised
                              /\ DOMAIN ret.value = {}
                              /\ response.status # 500
                              /\ DOMAIN response.body = {}

\* the load raised and a chart endpoint has answered
C8_Witness ==
  /\ reports.csv_files /\ reports.read_raises
  /\ analysis_data.isNone
  /\ ret.op = "category_bar_chart"
  /\ ~ret.raised
  /\ response = [status |-> 200, body |-> EmptyDict]

(* C9.  No summary or breakdown operation modifies the loaded table: the   *)
(* table (its null entries included) is after every call what it was       *)
(* before; the zero-fill is applied to a call-local copy.                  *)
C9_TableNeverModified ==
  [][analysis_data' = analysis_data /\ df' = df]_vars

\* a summary was computed (nulls filled) and the table still holds its nulls
C9_Witness ==
  /\ ret.op \in SummaryOps
  /\ ReturnedValue
  /\ HasNull(CallTable, "cart_value")
  /\ HasNull(CallTable, "is_abandoned")

\* two calls ended the same way: both raised the same, or returned equal values
SameOutcome(a, b) ==
  /\ a.raised = b.raised
  /\ a.exc = b.exc
  /\ DOMAIN a.value = DOMAIN b.value
  /\ \A k \in DOMAIN a.value : a.value[k] = b.value[k]

(* C10.  The two summary implementations agree on every table (absent,     *)
(* zero-row and missing-column tables included): get_summary_stats and     *)
(* calculate_summary_stats give the same record field by field, or the     *)
(* same empty or failed result.                                            *)
C10_SummariesAgree ==
  ret.op = "get_summary_stats"
  => SameOutcome(ret, calculate_summary_stats(df).ret)

=============================================================================
